---- MODULE Spec2Model ----
(***************************************************************************)
(* Model of the GitHub organizations backup script (src/main.py).          *)
(*                                                                         *)
(* One run of main() is a sequential walk: load_config, token check,      *)
(* get_organizations (one loop iteration per configured name), the "no    *)
(* valid organizations" check, creation of the backup directory, and      *)
(* then, per organization, get_repositories and, per repository, the      *)
(* mkdir of the organization directory and clone_or_pull_repo.  The local  *)
(* filesystem persists from one run to the next; everything else is       *)
(* rebuilt by each run.                                                    *)
(*                                                                         *)
(* The GitHub API and git are the environment.  An API call succeeds or   *)
(* raises GithubException (the failure the source handles, lines 59, 70). *)
(* A git call succeeds, raises GitCommandError, or raises some other      *)
(* exception (the source handles both kinds in the pull branch, lines 90  *)
(* and 92).                                                                *)
(***************************************************************************)
EXTENDS Integers, Sequences, FiniteSets, TLC

\* ---------------------------------------------------------------- bounds
MaxOrgs == 2      \* longest configured organization list
MaxRepos == 2     \* longest repository list an organization returns
MaxRuns == 2      \* runs of the script over the same backup directory
MaxOrgsRerun == 1 \* longest configured list when the script is run again

\* ------------------------------------------------------------ the inputs
\* Names that may appear in config['github']['organizations'].  GitHub
\* resolves names case-insensitively: "ACME" and "acme" are one organization.
OrgNames == {"acme", "ACME", "beta"}

RepoNames == {"svc-a", "svc-b"}

\* org.login of the organization that get_organization(name) returns.
Login(name) == IF name = "ACME" THEN "acme" ELSE name

Logins == {Login(n) : n \in OrgNames}

SeqsUpTo(S, n) == UNION {[1..m -> S] : m \in 0..n}

NoDup(s) == \A a, b \in 1..Len(s) : a # b => s[a] # s[b]

\* Repository lists an organization can return: names are unique within it.
RepoLists == {s \in SeqsUpTo(RepoNames, MaxRepos) : NoDup(s)}

\* What the configuration file can be: missing, not parsable, or a mapping
\* with a token (possibly empty) and an organization list.
ConfigFiles ==
    {[kind |-> "missing"], [kind |-> "malformed"]}
    \cup {[kind |-> "ok", token |-> t, organizations |-> l] :
            t \in BOOLEAN, l \in SeqsUpTo(OrgNames, MaxOrgs)}

\* The configuration files of the runs that are repeated.
ConfigFilesRerun ==
    {c \in ConfigFiles : c.kind = "ok" => Len(c.organizations) <= MaxOrgsRerun}

\* Conditions under which a git call runs.
Faults == {"none", "git", "other"}

\* ----------------------------------------------------------------- state
VARIABLES
    pc,             \* position of main()
    run,            \* number of the current run
    config_file,    \* content of config.yaml
    org_names,      \* config['github']['organizations']
    i,              \* get_organizations: index of the next name
    organizations,  \* logins of the organization objects collected
    j,              \* main: index of the organization being processed
    repos,          \* repository names of organizations[j]
    k,              \* main: index of the repository being processed
    dirs,           \* existing directories: <<>> backup root, <<login>>
    mirror,         \* state of each <<login, repo>> local path
    access_log,     \* this run: per name tried, whether it was accessed
    list_log,       \* this run: per login, how its last listing ended
    n_listings,     \* this run: calls of get_repositories so far
    n_listed,       \* this run: repository descriptors returned so far
    n_calls,        \* this run: calls of clone_or_pull_repo so far
    cur,            \* this run: the latest call of clone_or_pull_repo
    results,        \* this run: per local path, the outcome logged for it
    last_outcome,   \* the log file: per local path, the latest outcome
    exit_status     \* -1 while running, else the process exit status

vars == <<pc, run, config_file, org_names, i, organizations, j, repos, k,
          dirs, mirror, access_log, list_log, n_listings, n_listed, n_calls,
          cur, results, last_outcome, exit_status>>

Running == -1

Paths == Logins \X RepoNames

\* ------------------------------------------------------ pure definitions
\* backup_dir / org.login / repo_name
LocalRepoPath(login, name) == <<login, name>>

\* Slips in the test of the local path: only a complete clone counts as
\* present; nothing counts as present.
ExistsValidClone(st) == st = "clone"

ExistsNever(st) == FALSE

\* local_path.exists()
Exists(st) == st # "absent"

\* Path.mkdir(parents=True, exist_ok=True): the directory and its parents.
Mkdir(ds, d) == ds \cup {SubSeq(d, 1, n) : n \in 0..Len(d)}

\* What Repo.clone_from can do, given the state of the target path and the
\* conditions of the call: git refuses a destination that already exists.
GitCloneResults(pre, fault) ==
    IF pre # "absent" THEN {"GitCommandError"}
    ELSE IF fault = "none" THEN {"ok"}
    ELSE IF fault = "git" THEN {"GitCommandError"}
    ELSE {"Exception"}

\* What Repo(local_path) followed by repo.remotes.origin.pull() can do: a
\* missing path cannot be opened, a directory that is no complete clone can
\* fail to open or fail to pull (or be completed by the pull), a clone is
\* pulled unless the conditions of the call make it fail.
GitPullResults(pre, fault) ==
    IF pre = "absent" THEN {"Exception"}
    ELSE IF fault = "git" THEN {"GitCommandError"}
    ELSE IF fault = "other" THEN {"Exception"}
    ELSE IF pre = "partial" THEN {"ok", "GitCommandError", "Exception"}
    ELSE {"ok"}

\* What a clone can leave at a path that did not exist before.
LeftByClone(result) ==
    IF result = "ok" THEN {"clone"} ELSE {"absent", "partial"}

\* cur before the first call of clone_or_pull_repo of a run.
NoCall ==
    [path |-> <<>>, pre |-> "none", prior |-> "none", op |-> "none",
     fault |-> "none", outcome |-> "none"]

\* ------------------------------------------------------------------ Init
Init ==
    /\ pc = "load_config"
    /\ run = 1
    /\ config_file \in ConfigFiles
    /\ org_names = <<>>
    /\ i = 1
    /\ organizations = <<>>
    /\ j = 1
    /\ repos = <<>>
    /\ k = 1
    /\ dirs = {}
    /\ mirror = [p \in Paths |-> "absent"]
    /\ access_log = <<>>
    /\ list_log = [o \in Logins |-> "none"]
    /\ n_listings = 0
    /\ n_listed = 0
    /\ n_calls = 0
    /\ cur = NoCall
    /\ results = [p \in Paths |-> "none"]
    /\ last_outcome = [p \in Paths |-> "none"]
    /\ exit_status = Running

\* --------------------------------------------------------------- startup
\* load_config: a missing or unparsable file ends the process with status 1.
LoadConfig ==
    /\ pc = "load_config"
    /\ IF config_file.kind = "ok"
       THEN pc' = "check_token" /\ exit_status' = exit_status
       ELSE pc' = "fatal" /\ exit_status' = 1
    /\ UNCHANGED <<run, config_file, org_names, i, organizations, j, repos, k,
                   dirs, mirror, access_log, list_log, n_listed, n_listings,
                   n_calls, cur, results, last_outcome>>

\* main: an empty token ends the process with status 1; otherwise the client
\* is built and the organization names are read.
CheckToken ==
    /\ pc = "check_token"
    /\ IF config_file.token
       THEN /\ pc' = "get_organizations"
            /\ org_names' = config_file.organizations
            /\ exit_status' = exit_status
       ELSE /\ pc' = "fatal"
            /\ exit_status' = 1
            /\ org_names' = org_names
    /\ UNCHANGED <<run, config_file, i, organizations, j, repos, k, dirs,
                   mirror, access_log, list_log, n_listed, n_listings,
                   n_calls, cur, results, last_outcome>>

\* ----------------------------------------------------- get_organizations
\* One iteration of the loop: the organization is found and appended.
GetOrganizationOk ==
    /\ pc = "get_organizations"
    /\ i <= Len(org_names)
    /\ organizations' = Append(organizations, Login(org_names[i]))
    /\ access_log' = Append(access_log, TRUE)
    /\ i' = i + 1
    /\ UNCHANGED <<pc, run, config_file, org_names, j, repos, k, dirs, mirror,
                   list_log, n_listed, n_listings, n_calls, cur, results,
                   last_outcome, exit_status>>

\* One iteration of the loop: GithubException, logged, nothing appended.
GetOrganizationFails ==
    /\ pc = "get_organizations"
    /\ i <= Len(org_names)
    /\ access_log' = Append(access_log, FALSE)
    /\ i' = i + 1
    /\ UNCHANGED <<pc, run, config_file, org_names, organizations, j, repos,
                   k, dirs, mirror, list_log, n_listed, n_listings, n_calls,
                   cur, results, last_outcome, exit_status>>

\* A slip the "no valid organizations" check guards against: the backup
\* directory is created before the check.
CheckOrganizationsAfterMkdir ==
    /\ pc = "get_organizations"
    /\ i > Len(org_names)
    /\ dirs' = Mkdir(dirs, <<>>)
    /\ IF organizations = <<>>
       THEN pc' = "fatal" /\ exit_status' = 1
       ELSE pc' = "mkdir_backup" /\ exit_status' = exit_status
    /\ UNCHANGED <<run, config_file, org_names, i, organizations, j, repos, k,
                   mirror, access_log, list_log, n_listed, n_listings,
                   n_calls, cur, results, last_outcome>>

\* get_organizations returns; main exits with status 1 when the list is empty.
CheckOrganizations ==
    /\ pc = "get_organizations"
    /\ i > Len(org_names)
    /\ IF organizations = <<>>
       THEN pc' = "fatal" /\ exit_status' = 1
       ELSE pc' = "mkdir_backup" /\ exit_status' = exit_status
    /\ UNCHANGED <<run, config_file, org_names, i, organizations, j, repos, k,
                   dirs, mirror, access_log, list_log, n_listed, n_listings,
                   n_calls, cur, results, last_outcome>>

\* backup_dir.mkdir(parents=True, exist_ok=True)
MkdirBackup ==
    /\ pc = "mkdir_backup"
    /\ dirs' = Mkdir(dirs, <<>>)
    /\ j' = 1
    /\ pc' = "for_org"
    /\ UNCHANGED <<run, config_file, org_names, i, organizations, repos, k,
                   mirror, access_log, list_log, n_listed, n_listings,
                   n_calls, cur, results, last_outcome, exit_status>>

\* ------------------------------------------------- the organization loop
\* get_repositories returns the organization's repositories.
GetRepositoriesOk ==
    /\ pc = "for_org"
    /\ j <= Len(organizations)
    /\ \E l \in RepoLists :
         /\ repos' = l
         /\ n_listed' = n_listed + Len(l)
         /\ list_log' = [list_log EXCEPT ![organizations[j]] =
                            IF l = <<>> THEN "empty" ELSE "repos"]
    /\ n_listings' = n_listings + 1
    /\ k' = 1
    /\ pc' = "for_repo"
    /\ UNCHANGED <<run, config_file, org_names, i, organizations, j, dirs,
                   mirror, access_log, n_calls, cur, results, last_outcome,
                   exit_status>>

\* get_repositories: GithubException, logged, the empty list is returned.
GetRepositoriesFails ==
    /\ pc = "for_org"
    /\ j <= Len(organizations)
    /\ repos' = <<>>
    /\ list_log' = [list_log EXCEPT ![organizations[j]] = "failed"]
    /\ n_listings' = n_listings + 1
    /\ k' = 1
    /\ pc' = "for_repo"
    /\ UNCHANGED <<run, config_file, org_names, i, organizations, j, dirs,
                   mirror, access_log, n_listed, n_calls, cur, results,
                   last_outcome, exit_status>>

\* The inner loop is over: on to the next organization.
NextOrganization ==
    /\ pc = "for_repo"
    /\ k > Len(repos)
    /\ j' = j + 1
    /\ pc' = "for_org"
    /\ UNCHANGED <<run, config_file, org_names, i, organizations, repos, k,
                   dirs, mirror, access_log, list_log, n_listed, n_listings,
                   n_calls, cur, results, last_outcome, exit_status>>

\* A slip: the body of the inner loop without its mkdir.
MkdirOrgDirSkipped ==
    /\ pc = "for_repo"
    /\ k <= Len(repos)
    /\ pc' = "clone_or_pull"
    /\ UNCHANGED <<run, config_file, org_names, i, organizations, j, repos, k,
                   dirs, mirror, access_log, list_log, n_listed, n_listings,
                   n_calls, cur, results, last_outcome, exit_status>>

\* Body of the inner loop up to the call: org_dir.mkdir(...).
MkdirOrgDir ==
    /\ pc = "for_repo"
    /\ k <= Len(repos)
    /\ dirs' = Mkdir(dirs, <<organizations[j]>>)
    /\ pc' = "clone_or_pull"
    /\ UNCHANGED <<run, config_file, org_names, i, organizations, j, repos, k,
                   mirror, access_log, list_log, n_listed, n_listings,
                   n_calls, cur, results, last_outcome, exit_status>>

\* The organizations are exhausted: the completion line is logged and main
\* returns.
Done ==
    /\ pc = "for_org"
    /\ j > Len(organizations)
    /\ pc' = "done"
    /\ exit_status' = 0
    /\ UNCHANGED <<run, config_file, org_names, i, organizations, j, repos, k,
                   dirs, mirror, access_log, list_log, n_listed, n_listings,
                   n_calls, cur, results, last_outcome>>

\* ---------------------------------------------------- clone_or_pull_repo
\* The local path of the repository the inner loop is at.
CurrentPath == LocalRepoPath(organizations[j], repos[k])

\* cur as the call starts: it has chosen its branch and not returned.
Call(op) ==
    [path |-> CurrentPath, pre |-> mirror[CurrentPath],
     prior |-> last_outcome[CurrentPath], op |-> op,
     fault |-> "pending", outcome |-> "pending"]

\* if not local_path.exists(): the clone branch is entered.
BeginClone ==
    /\ pc = "clone_or_pull"
    /\ ~Exists(mirror[CurrentPath])
    /\ cur' = Call("clone")
    /\ n_calls' = n_calls + 1
    /\ pc' = "cloning"
    /\ UNCHANGED <<run, config_file, org_names, i, organizations, j, repos, k,
                   dirs, mirror, access_log, list_log, n_listed, n_listings,
                   results, last_outcome, exit_status>>

\* else: the pull branch is entered.
BeginPull ==
    /\ pc = "clone_or_pull"
    /\ Exists(mirror[CurrentPath])
    /\ cur' = Call("pull")
    /\ n_calls' = n_calls + 1
    /\ pc' = "pulling"
    /\ UNCHANGED <<run, config_file, org_names, i, organizations, j, repos, k,
                   dirs, mirror, access_log, list_log, n_listed, n_listings,
                   results, last_outcome, exit_status>>

\* The effect of a git call on the disk: the path is left in state post (git
\* creates the leading directories of what it writes).
Disk(post) ==
    /\ mirror' = [mirror EXCEPT ![CurrentPath] = post]
    /\ dirs' = IF post = "absent" THEN dirs
               ELSE Mkdir(dirs, <<organizations[j]>>)

\* A slip: a failed repository is tried again.
ReturnOrRetry(fault, outcome) ==
    /\ cur' = [cur EXCEPT !.fault = fault, !.outcome = outcome]
    /\ results' = [results EXCEPT ![CurrentPath] = outcome]
    /\ last_outcome' = [last_outcome EXCEPT ![CurrentPath] = outcome]
    /\ k' = IF outcome = "Failed" THEN k ELSE k + 1
    /\ pc' = IF outcome = "Failed" THEN "clone_or_pull" ELSE "for_repo"
    /\ exit_status' = exit_status

\* The outcome is logged and clone_or_pull_repo returns to the inner loop,
\* which moves on.
Return(fault, outcome) ==
    /\ cur' = [cur EXCEPT !.fault = fault, !.outcome = outcome]
    /\ results' = [results EXCEPT ![CurrentPath] = outcome]
    /\ last_outcome' = [last_outcome EXCEPT ![CurrentPath] = outcome]
    /\ k' = k + 1
    /\ pc' = "for_repo"
    /\ exit_status' = exit_status

\* The exception leaves clone_or_pull_repo and main: nothing is logged for the
\* repository and the process ends with a traceback and status 1.
Propagate(fault) ==
    /\ cur' = [cur EXCEPT !.fault = fault, !.outcome = "Raised"]
    /\ results' = results
    /\ last_outcome' = last_outcome
    /\ k' = k
    /\ pc' = "crashed"
    /\ exit_status' = 1

\* Repo.clone_from succeeds: "Successfully cloned" is logged.
CloneSucceeds ==
    /\ pc = "cloning"
    /\ \E fault \in Faults :
         /\ "ok" \in GitCloneResults(mirror[CurrentPath], fault)
         /\ Disk("clone")
         /\ Return(fault, "Cloned")
    /\ UNCHANGED <<run, config_file, org_names, i, organizations, j, repos,
                   access_log, list_log, n_listed, n_listings, n_calls>>

\* Repo.clone_from raises GitCommandError: caught and logged (lines 81-82).
CloneFailsGit ==
    /\ pc = "cloning"
    /\ \E fault \in Faults :
         /\ "GitCommandError" \in GitCloneResults(mirror[CurrentPath], fault)
         /\ \E post \in IF mirror[CurrentPath] = "absent"
                        THEN LeftByClone("GitCommandError")
                        ELSE {mirror[CurrentPath]} : Disk(post)
         /\ Return(fault, "Failed")
    /\ UNCHANGED <<run, config_file, org_names, i, organizations, j, repos,
                   access_log, list_log, n_listed, n_listings, n_calls>>

\* Repo.clone_from raises anything else: the clone branch has no handler for
\* it.
CloneRaisesOther ==
    /\ pc = "cloning"
    /\ \E fault \in Faults :
         /\ "Exception" \in GitCloneResults(mirror[CurrentPath], fault)
         /\ \E post \in IF mirror[CurrentPath] = "absent"
                        THEN LeftByClone("Exception")
                        ELSE {mirror[CurrentPath]} : Disk(post)
         /\ Propagate(fault)
    /\ UNCHANGED <<run, config_file, org_names, i, organizations, j, repos,
                   access_log, list_log, n_listed, n_listings, n_calls>>

\* Repo(local_path) and origin.pull() succeed: "Successfully pulled" is logged.
PullSucceeds ==
    /\ pc = "pulling"
    /\ \E fault \in Faults :
         /\ "ok" \in GitPullResults(mirror[CurrentPath], fault)
         /\ Disk("clone")
         /\ Return(fault, "Updated")
    /\ UNCHANGED <<run, config_file, org_names, i, organizations, j, repos,
                   access_log, list_log, n_listed, n_listings, n_calls>>

\* The pull branch raises GitCommandError: caught and logged (lines 90-91).
PullFailsGit ==
    /\ pc = "pulling"
    /\ \E fault \in Faults :
         /\ "GitCommandError" \in GitPullResults(mirror[CurrentPath], fault)
         /\ Disk(mirror[CurrentPath])
         /\ Return(fault, "Failed")
    /\ UNCHANGED <<run, config_file, org_names, i, organizations, j, repos,
                   access_log, list_log, n_listed, n_listings, n_calls>>

\* The pull branch raises anything else: caught and logged (lines 92-93).
PullFailsOther ==
    /\ pc = "pulling"
    /\ \E fault \in Faults :
         /\ "Exception" \in GitPullResults(mirror[CurrentPath], fault)
         /\ Disk(mirror[CurrentPath])
         /\ Return(fault, "Failed")
    /\ UNCHANGED <<run, config_file, org_names, i, organizations, j, repos,
                   access_log, list_log, n_listed, n_listings, n_calls>>

\* -------------------------------------------------------------- the runs
Terminal == pc \in {"done", "fatal", "crashed"}

\* The script is started again with the same configuration file: of the
\* state, only the disk is kept.
Restart ==
    /\ Terminal
    /\ run < MaxRuns
    /\ run' = run + 1
    /\ pc' = "load_config"
    /\ org_names' = <<>>
    /\ i' = 1
    /\ organizations' = <<>>
    /\ j' = 1
    /\ repos' = <<>>
    /\ k' = 1
    /\ access_log' = <<>>
    /\ list_log' = [o \in Logins |-> "none"]
    /\ n_listings' = 0
    /\ n_listed' = 0
    /\ n_calls' = 0
    /\ cur' = NoCall
    /\ results' = [p \in Paths |-> "none"]
    /\ exit_status' = Running
    /\ UNCHANGED <<config_file, dirs, mirror, last_outcome>>

Next ==
    \/ LoadConfig
    \/ CheckToken
    \/ GetOrganizationOk
    \/ GetOrganizationFails
    \/ CheckOrganizations
    \/ MkdirBackup
    \/ GetRepositoriesOk
    \/ GetRepositoriesFails
    \/ NextOrganization
    \/ MkdirOrgDir
    \/ Done
    \/ BeginClone
    \/ BeginPull
    \/ CloneSucceeds
    \/ CloneFailsGit
    \/ CloneRaisesOther
    \/ PullSucceeds
    \/ PullFailsGit
    \/ PullFailsOther

\* One run of the script, from an empty backup directory.
Spec == Init /\ [][Next]_vars

\* Successive runs of the script over the same backup directory.
InitRuns == Init /\ config_file \in ConfigFilesRerun

NextRuns == Next \/ Restart

SpecRuns == InitRuns /\ [][NextRuns]_vars

\* ------------------------------------------------------------ the claims
\* The run is over and was not stopped at startup.
RunEnded == pc \in {"done", "crashed"}

\* Every organization collected has been listed and every repository
\* descriptor returned has had its call of clone_or_pull_repo.
AllProcessed == n_listings = Len(organizations) /\ n_calls = n_listed

\* C1: a failure of the clone or pull of a repository, of whatever kind, does
\* not prevent a later repository of the same or of a later organization from
\* being processed: when the run is over, every organization collected has
\* been listed and every descriptor listed has had its clone-or-pull attempt.
C1_RepositoryFailureIsolated == RunEnded => AllProcessed

\* C2: clone_or_pull_repo never propagates an error to its caller: every call
\* that has ended has logged Cloned, Updated or Failed.
C2_SyncNeverPropagates == cur.outcome # "Raised"

\* Some organization of the list failed to resolve or to list.
SomeOrganizationFailed ==
    \/ \E n \in 1..Len(access_log) : ~access_log[n]
    \/ \E o \in Logins : list_log[o] = "failed"

\* The logins of the names of l that acc marks as accessed, in order.
RECURSIVE Accessed(_, _)
Accessed(l, acc) ==
    IF l = <<>> \/ acc = <<>> THEN <<>>
    ELSE IF Head(acc) THEN <<Login(Head(l))>> \o Accessed(Tail(l), Tail(acc))
    ELSE Accessed(Tail(l), Tail(acc))

\* C3: an organization that fails to resolve or to list is skipped and every
\* other organization is still resolved, listed and has all its repositories
\* synced: when the run is over after such a failure, every name was tried,
\* the organizations collected are exactly those accessed, and all of them
\* were processed.
C3_OrganizationFailureIsolated ==
    (Terminal /\ SomeOrganizationFailed) =>
        /\ Len(access_log) = Len(org_names)
        /\ organizations = Accessed(org_names, access_log)
        /\ AllProcessed

\* The run is past get_organizations and no organization was accessed.
ZeroAccessible ==
    /\ pc \notin {"load_config", "check_token", "get_organizations"}
    /\ organizations = <<>>

\* C4: with zero organizations accessed the run ends in the fatal state with a
\* non-zero status, before any repository is listed or synced, and creates
\* nothing on the (initially empty) disk, the backup root included.
C4_ZeroOrganizationsFatal ==
    ZeroAccessible =>
        /\ pc = "fatal"
        /\ exit_status = 1
        /\ \A o \in Logins : list_log[o] = "none"
        /\ n_listings = 0
        /\ n_listed = 0
        /\ n_calls = 0
        /\ dirs = {}
        /\ \A p \in Paths : mirror[p] = "absent"

C4_Witness ==
    /\ pc = "fatal"
    /\ Len(org_names) = 2
    /\ Len(access_log) = 2
    /\ \A n \in 1..2 : ~access_log[n]

\* C5: the exit status is 0 whenever an organization was accessible, whatever
\* the clone and pull failures, and non-zero only on a fatal startup
\* condition.
C5_ExitStatus ==
    Terminal =>
        /\ organizations # <<>> => exit_status = 0
        /\ exit_status # 0 => pc = "fatal"

\* C6: the branch of a call depends only on whether the local path exists when
\* the call starts: clone if and only if it is absent, pull if and only if it
\* is present, whatever is there (a directory left by a failed clone is pulled,
\* not cloned again), and a call takes one branch only.
C6_BranchByExistence ==
    cur.op # "none" =>
        /\ cur.op \in {"clone", "pull"}
        /\ cur.op = "clone" <=> cur.pre = "absent"
        /\ cur.op = "pull" <=> cur.pre \in {"partial", "clone"}
        /\ cur.outcome = "Cloned" => cur.op = "clone"
        /\ cur.outcome = "Updated" => cur.op = "pull"

C6_Witness ==
    /\ cur.pre = "partial"
    /\ cur.prior = "Failed"
    /\ cur.op = "pull"
    /\ cur.outcome = "Failed"

C8_OrgDirForEveryListedOrg ==
    pc = "done" =>
        \A o \in Logins : list_log[o] \in {"empty", "repos"} => <<o>> \in dirs

\* C8, amended: the directory of an organization exists before each of its
\* repositories is synced, so after a completed run it exists for every
\* organization whose listing returned a repository.
C8_OrgDirBeforeSync ==
    /\ pc \in {"clone_or_pull", "cloning", "pulling"} =>
         {<<>>, <<organizations[j]>>} \subseteq dirs
    /\ pc = "done" =>
         \A o \in Logins : list_log[o] = "repos" => <<o>> \in dirs

C8_Witness ==
    /\ pc = "done"
    /\ list_log["acme"] = "repos" /\ <<"acme">> \in dirs
    /\ list_log["beta"] = "empty" /\ <<"beta">> \notin dirs

\* C9, as it was stated: within a run no local path is the target of a second
\* call, whatever the configured list.
C9_OneAttemptPerPath ==
    pc \in {"cloning", "pulling"} => results[cur.path] = "none"

\* C9, amended: when the organizations accessed in the run are pairwise
\* distinct, no local path is the target of a second call, so no Failed
\* outcome is followed by another attempt.
C9_NoRetry ==
    NoDup(organizations) => C9_OneAttemptPerPath

C9_Witness ==
    /\ pc = "done"
    /\ Len(organizations) = 2
    /\ NoDup(organizations)
    /\ n_calls = 4
    /\ \E p \in Paths : results[p] = "Failed"

\* C10: every run ends in the fatal exit or at the completion line, and the
\* completion line comes only after every repository of every organization
\* collected has its outcome.
C10_EndsFatalOrCompleted ==
    /\ Terminal => pc \in {"fatal", "done"}
    /\ pc = "done" =>
         /\ AllProcessed
         /\ cur.outcome \in {"none", "Cloned", "Updated", "Failed"}

====
